---- MODULE Spec2Model ----
(***************************************************************************)
(* KR Property backend (src/fixed-server.js): the request handlers that    *)
(* create records and deliver notification emails, as a state machine.     *)
(*                                                                         *)
(* A handler is an async function: the code between two awaits runs        *)
(* atomically on the single JavaScript thread, and every await of a store  *)
(* or transport call is a point where other requests interleave.  Each     *)
(* action below is one such segment: the store or transport call that the  *)
(* previous segment issued takes effect, and the handler runs on to its    *)
(* next await or to its response.                                          *)
(***************************************************************************)
EXTENDS Integers, Sequences, FiniteSets, TLC

\* Number of request slots; each slot serves one request of any endpoint.
NumReq == 2

Req == 1..NumReq

VARIABLES
    db,                       \* TRUE iff `db` is not null (DATABASE_URL was set)
    SENDGRID_API_KEY,         \* TRUE iff the transport is configured
    now,                      \* the date new Date() reports: [year, month]
    serial,                   \* per table: the last value of its id sequence
    newsletterSubscriptions,  \* table rows, in insertion order
    dealSourcingWaitlist,
    inflationCalculations,
    learningProgress,
    achievements,
    pendingEmails,
    kind,                     \* per request: the endpoint it was sent to
    pc,                       \* per request: the await it is suspended at
    body,                     \* per request: req.body (and req.params)
    loc,                      \* per request: the handler's local variables
    calls,                    \* per request: the sgMail.send calls it has made
    res,                      \* per request: the response it sent
    queuedBy,                 \* per pending_emails row: the request that inserted it
    doneBefore                \* per request: the requests for the same record
                              \* that were answered before it arrived

vars == << db, SENDGRID_API_KEY, now, serial, newsletterSubscriptions,
           dealSourcingWaitlist, inflationCalculations, learningProgress,
           achievements, pendingEmails, kind, pc, body, loc, calls, res, queuedBy,
           doneBefore >>

tables == << newsletterSubscriptions, dealSourcingWaitlist,
             inflationCalculations, learningProgress, achievements,
             pendingEmails, queuedBy >>

----------------------------------------------------------------------------
(* Strings the handlers inspect character by character are sequences of    *)
(* one-character strings.                                                  *)

IsSpace(c) == c \in {" ", "\t", "\n"}

RECURSIVE TrimLeft(_)
TrimLeft(s) ==
    IF s = << >> THEN s
    ELSE IF IsSpace(Head(s)) THEN TrimLeft(Tail(s)) ELSE s

RECURSIVE TrimRight(_)
TrimRight(s) ==
    IF s = << >> THEN s
    ELSE IF IsSpace(s[Len(s)]) THEN TrimRight(SubSeq(s, 1, Len(s) - 1)) ELSE s

\* String.prototype.trim
Trim(s) == TrimRight(TrimLeft(s))

\* /^[^\s@]+@[^\s@]+\.[^\s@]+$/.test(s)
emailRegexTestLoose(s) == \E i \in 1..Len(s) : s[i] = "@"

emailRegexTest(s) ==
    \E i \in 1..Len(s) : \E j \in 1..Len(s) :
        /\ s[i] = "@"
        /\ s[j] = "."
        /\ 2 <= i
        /\ i + 2 <= j
        /\ j + 1 <= Len(s)
        /\ \A k \in 1..Len(s) : k # i => (~IsSpace(s[k]) /\ s[k] # "@")

\* The email addresses requests carry.
EmailA      == << "a", "@", "b", ".", "c" >>
EmailASpace == << " ", "a", "@", "b", ".", "c" >>
EmailD      == << "d", "@", "e", ".", "f" >>
EmailNoDot  == << "a", "@", "b" >>
EmailBlank  == << " " >>
EmailNone   == << >>

Emails == { EmailA, EmailASpace, EmailD, EmailNoDot, EmailBlank, EmailNone }

----------------------------------------------------------------------------
(* PersistentStore: insert / select of one table.                          *)

\* No row: what a handler holds before a statement has returned one.
NoRow == [ id |-> 0 ]

\* The id the table's serial sequence hands out next.
NextId(t) == serial[t] + 1

\* .unique() on the email column: the store accepts a row only if no row of the
\* table holds the same email.
UniqueEmailOff(table, email) == TRUE

UniqueEmail(table, email) == \A i \in 1..Len(table) : table[i].email # email

\* db.select().from(table).where(eq(table.email, email))
SelectByEmail(table, email) ==
    SelectSeq(table, LAMBDA row : row.email = email)

\* db.insert(table).values(row): the table afterwards.
InsertRowOverLast(table, row) ==
    IF table = << >> THEN << row >> ELSE [table EXCEPT ![Len(table)] = row]

InsertRow(table, row) == Append(table, row)

\* What a store call can come back with besides its result: the connection
\* fails before the statement takes effect.
StoreUp == BOOLEAN

----------------------------------------------------------------------------
(* Requests and responses.                                                 *)

NoBody == [ email |-> EmailNone ]

\* sgMail.send rejects with an error that has a message and a code.
TransportErrors == { "Unauthorized", "Forbidden" }

\* One sgMail.send(msg) call and what it came back with ("ok" or the error).
Call(from, to, subject, html, result) ==
    [ from |-> from, to |-> to, subject |-> subject, html |-> html,
      result |-> result ]

NoLoc == [ existing |-> << >>, entry |-> NoRow, idx |-> 0,
           emailSent |-> FALSE, emailError |-> "null", emailStored |-> FALSE,
           emailContent |-> << >>, caught |-> "none" ]

NoRes == [ status |-> 0, success |-> FALSE, message |-> "", error |-> "",
           data |-> "none" ]

\* res.status(s).json({success, message, error?, data?})
Json(s, ok, msg, err, data) ==
    [ status |-> s, success |-> ok, message |-> msg, error |-> err, data |-> data ]

\* catch (error) { res.status(500).json({success: false, message, error}) }
CatchSwallowed(msg, err) == Json(200, TRUE, msg, err, "none")

CatchResponse(msg, err) == Json(500, FALSE, msg, err, "none")

Done == { r \in Req : pc[r] = "done" }

\* The handler of request r sends its response and returns.
Respond(r, response) ==
    /\ res' = [res EXCEPT ![r] = response]
    /\ pc' = [pc EXCEPT ![r] = "done"]

IngestKinds == { "newsletter", "waitlist" }

UpsertKinds == { "progressPost", "progressPut" }

\* Two requests name the same record: the same email (trimmed) at the same
\* ingest endpoint, the same user and module at the upsert endpoints, or the
\* same user and badge at the achievements endpoint.
SameRecord(k1, b1, k2, b2) ==
    \/ k1 \in IngestKinds /\ k2 = k1 /\ Trim(b1.email) = Trim(b2.email)
    \/ /\ k1 \in UpsertKinds /\ k2 \in UpsertKinds
       /\ b1.userId = b2.userId /\ b1.moduleId = b2.moduleId
    \/ /\ k1 = "achievement" /\ k2 = k1
       /\ b1.userId = b2.userId /\ b1.badgeId = b2.badgeId

\* A request arrives at slot r for endpoint k with body b.  Slots are handed
\* out in order: the requests are numbered by arrival.
Arrive(r, k, b) ==
    /\ pc[r] = "idle"
    /\ \A q \in Req : q < r => pc[q] # "idle"
    /\ kind' = [kind EXCEPT ![r] = k]
    /\ body' = [body EXCEPT ![r] = b]
    /\ doneBefore' = [doneBefore EXCEPT ![r] =
                          { q \in Done : SameRecord(kind[q], body[q], k, b) }]

Init ==
    /\ db \in BOOLEAN
    /\ SENDGRID_API_KEY \in BOOLEAN
    /\ now = [ year |-> 2025, month |-> 11 ]
    /\ serial = [ t \in { "newsletter_subscriptions", "deal_sourcing_waitlist",
                          "inflation_calculations", "learning_progress",
                          "achievements", "pending_emails" } |-> 0 ]
    /\ newsletterSubscriptions = << >>
    /\ dealSourcingWaitlist = << >>
    /\ inflationCalculations = << >>
    /\ learningProgress = << >>
    /\ achievements = << >>
    /\ pendingEmails = << >>
    /\ kind = [ r \in Req |-> "none" ]
    /\ pc = [ r \in Req |-> "idle" ]
    /\ body = [ r \in Req |-> NoBody ]
    /\ loc = [ r \in Req |-> NoLoc ]
    /\ calls = [ r \in Req |-> << >> ]
    /\ res = [ r \in Req |-> NoRes ]
    /\ queuedBy = << >>
    /\ doneBefore = [ r \in Req |-> {} ]

----------------------------------------------------------------------------
(* POST /api/newsletter                                                    *)

\* Entry to the first await: validation, the db guard, the select is issued.
NewsletterStart(r) ==
    \E email \in Emails :
        /\ Arrive(r, "newsletter", [ email |-> email ])
        /\ IF email = << >> \/ Trim(email) = << >>
           THEN Respond(r, Json(400, FALSE, "Email is required", "", "none"))
           ELSE IF ~emailRegexTest(Trim(email))
           THEN Respond(r, Json(400, FALSE, "Invalid email format", "", "none"))
           ELSE IF ~db
           THEN Respond(r, Json(500, FALSE, "Database connection not available", "", "none"))
           ELSE /\ pc' = [pc EXCEPT ![r] = "select"]
                /\ res' = res
        /\ UNCHANGED << db, SENDGRID_API_KEY, now, serial, tables, loc, calls >>

\* The lookup key of the duplicate check: eq(table.email, email.trim()).
LookupKeyRaw(email) == email

LookupKey(email) == Trim(email)

\* The select returns; "already subscribed" answers 200, else the insert is issued.
NewsletterSelect(r) ==
    /\ kind[r] = "newsletter" /\ pc[r] = "select"
    /\ \E up \in StoreUp :
        IF ~up
        THEN /\ Respond(r, CatchResponse("Failed to subscribe to newsletter",
                                         "StoreUnavailable"))
             /\ loc' = [loc EXCEPT ![r].caught = "StoreUnavailable"]
        ELSE LET existing == SelectByEmail(newsletterSubscriptions,
                                           LookupKey(body[r].email))
             IN IF Len(existing) > 0
                THEN /\ Respond(r, Json(200, TRUE, "Email already subscribed to newsletter", "",
                                        [ id |-> existing[1].id,
                                          email |-> existing[1].email,
                                          subscribedAt |-> existing[1].createdAt ]))
                     /\ loc' = [loc EXCEPT ![r].existing = existing]
                ELSE /\ pc' = [pc EXCEPT ![r] = "insert"]
                     /\ res' = res
                     /\ loc' = [loc EXCEPT ![r].existing = existing]
    /\ UNCHANGED << db, SENDGRID_API_KEY, now, serial, tables, kind, body, calls,
                    doneBefore >>

\* The insert returns: the new row answers 201; a rejected insert throws into
\* the handler's catch, which answers 500.
NewsletterInsert(r) ==
    /\ kind[r] = "newsletter" /\ pc[r] = "insert"
    /\ \E up \in StoreUp :
        IF ~up
        THEN /\ Respond(r, CatchResponse("Failed to subscribe to newsletter",
                                         "StoreUnavailable"))
             /\ loc' = [loc EXCEPT ![r].caught = "StoreUnavailable"]
             /\ UNCHANGED << serial, newsletterSubscriptions >>
        ELSE LET id  == NextId("newsletter_subscriptions")
                 row == [ id |-> id, email |-> Trim(body[r].email), createdAt |-> now ]
             IN /\ serial' = [serial EXCEPT !["newsletter_subscriptions"] = id]
                /\ IF UniqueEmail(newsletterSubscriptions, row.email)
                   THEN /\ newsletterSubscriptions' = Append(newsletterSubscriptions, row)
                        /\ loc' = [loc EXCEPT ![r].entry = row]
                        /\ Respond(r, Json(201, TRUE, "Successfully subscribed to newsletter", "",
                                           [ id |-> row.id, email |-> row.email,
                                             subscribedAt |-> row.createdAt ]))
                   ELSE /\ UNCHANGED newsletterSubscriptions
                        /\ loc' = [loc EXCEPT ![r].caught = "ConstraintViolation"]
                        /\ Respond(r, CatchResponse("Failed to subscribe to newsletter",
                                                    "ConstraintViolation"))
    /\ UNCHANGED << db, SENDGRID_API_KEY, now, achievements,
                    dealSourcingWaitlist,
                    inflationCalculations, learningProgress, pendingEmails,
                    queuedBy, kind, body, calls, doneBefore >>

----------------------------------------------------------------------------
(* POST /api/send-deal-lead                                                *)

ValidEmails == { e \in Emails : emailRegexTest(Trim(e)) }

WaitlistBase ==
    [ name |-> << "A", "l" >>, email |-> EmailA, phone |-> << >>,
      investmentAmount |-> << "5", "0", "k" >>,
      experienceLevel |-> << "n", "e", "w" >> ]

\* The bodies POST /api/send-deal-lead is sent: two leads with the same email
\* (after trimming) and different other fields, a lead with another email, and
\* one body per way of failing validation.
WaitlistBodies ==
    { WaitlistBase,
      [ name |-> << " ", "B", "o" >>, email |-> EmailASpace, phone |-> << "0", "7" >>,
        investmentAmount |-> << "9", "k" >>, experienceLevel |-> << "p", "r", "o" >> ],
      [WaitlistBase EXCEPT !.email = EmailD] }
    \cup { [WaitlistBase EXCEPT !.email = e] : e \in Emails \ ValidEmails }
    \cup { [WaitlistBase EXCEPT !.name = << >>],
           [WaitlistBase EXCEPT !.investmentAmount = << >>],
           [WaitlistBase EXCEPT !.experienceLevel = << >>] }

\* The html of the confirmation email: the template's one slot is name.trim().
ConfirmationHtml(name) == << "Welcome to Our Deal Sourcing Waitlist!", "Hi ", Trim(name) >>

DealLeadStart(r) ==
    \E b \in WaitlistBodies :
        /\ Arrive(r, "waitlist", b)
        /\ IF b.name = << >> \/ b.email = << >> \/ b.investmentAmount = << >>
              \/ b.experienceLevel = << >>
           THEN Respond(r, Json(400, FALSE,
                    "Name, email, investment amount, and experience level are required",
                    "", "none"))
           ELSE IF ~emailRegexTest(Trim(b.email))
           THEN Respond(r, Json(400, FALSE, "Invalid email format", "", "none"))
           ELSE IF ~db
           THEN Respond(r, Json(500, FALSE, "Database connection not available", "", "none"))
           ELSE /\ pc' = [pc EXCEPT ![r] = "select"]
                /\ res' = res
        /\ UNCHANGED << db, SENDGRID_API_KEY, now, serial, tables, loc, calls >>

\* The 200 response of a lead whose email is already on the waitlist.
DealLeadExistingEcho(r, existing) ==
    Json(200, TRUE, "Email already on deal sourcing waitlist", "",
         [ id |-> existing[1].id, name |-> Trim(body[r].name),
           email |-> existing[1].email, joinedAt |-> existing[1].createdAt ])

DealLeadExisting(r, existing) ==
    Json(200, TRUE, "Email already on deal sourcing waitlist", "",
         [ id |-> existing[1].id, name |-> existing[1].name,
           email |-> existing[1].email, joinedAt |-> existing[1].createdAt ])

DealLeadSelect(r) ==
    /\ kind[r] = "waitlist" /\ pc[r] = "select"
    /\ \E up \in StoreUp :
        IF ~up
        THEN /\ Respond(r, CatchResponse("Failed to join deal sourcing waitlist",
                                         "StoreUnavailable"))
             /\ loc' = [loc EXCEPT ![r].caught = "StoreUnavailable"]
        ELSE LET existing == SelectByEmail(dealSourcingWaitlist,
                                           LookupKey(body[r].email))
             IN IF Len(existing) > 0
                THEN /\ Respond(r, DealLeadExisting(r, existing))
                     /\ loc' = [loc EXCEPT ![r].existing = existing]
                ELSE /\ pc' = [pc EXCEPT ![r] = "insert"]
                     /\ res' = res
                     /\ loc' = [loc EXCEPT ![r].existing = existing]
    /\ UNCHANGED << db, SENDGRID_API_KEY, now, serial, tables, kind, body, calls,
                    doneBefore >>

\* The 201 response of a created waitlist entry.
DealLeadCreated(entry, emailSent) ==
    Json(201, TRUE, "Successfully added to deal sourcing waitlist", "",
         [ id |-> entry.id, name |-> entry.name, email |-> entry.email,
           joinedAt |-> entry.createdAt, emailSent |-> emailSent ])

\* The insert returns; with the transport configured the confirmation email is
\* sent next, otherwise the handler answers 201 at once.
DealLeadInsert(r) ==
    /\ kind[r] = "waitlist" /\ pc[r] = "insert"
    /\ \E up \in StoreUp :
        IF ~up
        THEN /\ Respond(r, CatchResponse("Failed to join deal sourcing waitlist",
                                         "StoreUnavailable"))
             /\ loc' = [loc EXCEPT ![r].caught = "StoreUnavailable"]
             /\ UNCHANGED << serial, dealSourcingWaitlist >>
        ELSE LET id  == NextId("deal_sourcing_waitlist")
                 b   == body[r]
                 row == [ id |-> id, name |-> Trim(b.name), email |-> Trim(b.email),
                          phone |-> IF b.phone # << >> THEN Trim(b.phone) ELSE "null",
                          investmentAmount |-> Trim(b.investmentAmount),
                          experienceLevel |-> Trim(b.experienceLevel),
                          createdAt |-> now ]
             IN /\ serial' = [serial EXCEPT !["deal_sourcing_waitlist"] = id]
                /\ IF UniqueEmail(dealSourcingWaitlist, row.email)
                   THEN /\ dealSourcingWaitlist' = Append(dealSourcingWaitlist, row)
                        /\ loc' = [loc EXCEPT ![r].entry = row]
                        /\ IF SENDGRID_API_KEY
                           THEN /\ pc' = [pc EXCEPT ![r] = "send"]
                                /\ res' = res
                           ELSE Respond(r, DealLeadCreated(row, FALSE))
                   ELSE /\ UNCHANGED dealSourcingWaitlist
                        /\ loc' = [loc EXCEPT ![r].caught = "ConstraintViolation"]
                        /\ Respond(r, CatchResponse("Failed to join deal sourcing waitlist",
                                                    "ConstraintViolation"))
    /\ UNCHANGED << db, SENDGRID_API_KEY, now, achievements,
                    newsletterSubscriptions,
                    inflationCalculations, learningProgress, pendingEmails,
                    queuedBy, kind, body, calls, doneBefore >>

\* What the handler does when the confirmation send rejects: the catch logs the
\* error and the handler goes on to its 201.
DealLeadSendFailedThrows(r) ==
    Json(500, FALSE, "Failed to join deal sourcing waitlist", "TransportError", "none")

DealLeadSendFailed(r) == DealLeadCreated(loc[r].entry, FALSE)

\* The one sgMail.send of the confirmation returns.
DealLeadSend(r) ==
    /\ kind[r] = "waitlist" /\ pc[r] = "send"
    /\ \E result \in {"ok"} \cup TransportErrors :
        /\ calls' = [calls EXCEPT ![r] = Append(@,
                Call("deals@krpropertyinvestments.com", Trim(body[r].email),
                     "Welcome to KR Property Investments Deal Sourcing Waitlist!",
                     ConfirmationHtml(body[r].name), result))]
        /\ loc' = [loc EXCEPT ![r].emailSent = (result = "ok")]
        /\ IF result = "ok"
           THEN Respond(r, DealLeadCreated(loc[r].entry, TRUE))
           ELSE Respond(r, DealLeadSendFailed(r))
    /\ UNCHANGED << db, SENDGRID_API_KEY, now, serial, tables, kind, body,
                    doneBefore >>

----------------------------------------------------------------------------
(* POST /api/inflation-email                                               *)

\* JavaScript values of the body's data fields.
Undefined == [ t |-> "undefined" ]
Num(n)    == [ t |-> "number", v |-> n ]
Text(x)   == [ t |-> "string", v |-> x ]

Truthy(x) ==
    /\ x.t # "undefined"
    /\ x.t = "number" => x.v # 0
    /\ x.t = "string" => x.v # << >>

\* x?.toLocaleString(): undefined stays undefined, anything else is formatted.
ToLocaleString(x) ==
    IF x.t = "undefined" THEN Undefined ELSE Text(<< "toLocaleString", x.v >>)

\* x?.toFixed(2): undefined stays undefined, a number is formatted, and any
\* other value has no toFixed method, so the call throws a TypeError.
ToFixed2Throws(x) == x.t \notin { "undefined", "number" }

ToFixed2(x) ==
    IF x.t = "undefined" THEN Undefined ELSE Text(<< "toFixed(2)", x.v >>)

CalcNumbers ==
    [ originalValue |-> Num(1000), todayValue |-> Num(1500),
      lossInValue |-> Num(500), percentageIncrease |-> Num(50) ]

EmailBase ==
    [ name |-> << "A", "l" >>, email |-> EmailA, amount |-> Num(1000),
      month |-> 1, year |-> 2020, chartImage |-> << >>,
      calculationData |-> CalcNumbers ]

\* The bodies POST /api/inflation-email is sent: a full report; one without
\* name, amount and percentage, with a chart, to the same address untrimmed;
\* one whose percentage is a string; and one body per way of failing
\* validation (calculationData Undefined is a body without the field).
EmailBodies ==
    { EmailBase,
      [ name |-> << >>, email |-> EmailASpace, amount |-> Undefined,
        month |-> 1, year |-> 2020, chartImage |-> << "p", "n", "g" >>,
        calculationData |-> [CalcNumbers EXCEPT !.percentageIncrease = Undefined] ],
      [EmailBase EXCEPT !.calculationData =
          [CalcNumbers EXCEPT !.percentageIncrease = Text(<< "5", "0" >>)]] }
    \cup { [EmailBase EXCEPT !.email = e] : e \in Emails \ ValidEmails }
    \cup { [EmailBase EXCEPT !.calculationData = Undefined] }

\* Evaluating the template literal throws.
emailContentThrows(b) == ToFixed2Throws(b.calculationData.percentageIncrease)

\* The template literal emailContent: its interpolated slots, in order.
emailContent(b, year) ==
    LET c == b.calculationData
        original == IF Truthy(ToLocaleString(b.amount))
                    THEN ToLocaleString(b.amount)
                    ELSE ToLocaleString(c.originalValue)
    IN      << IF b.name # << >> THEN b.name ELSE << "t", "h", "e", "r", "e" >>,
               original, b.month, b.year,
               ToLocaleString(c.todayValue), ToLocaleString(c.lossInValue),
               ToFixed2(c.percentageIncrease),
               IF b.chartImage # << >> THEN << "img", b.chartImage >> ELSE << >>,
               ToFixed2(c.percentageIncrease), ToLocaleString(c.todayValue),
               year >>

senderConfigs ==
    << [ from |-> "info@kr-properties.co.uk", name |-> "KR Property Investments" ],
       [ from |-> "noreply@kr-properties.co.uk", name |-> "KR Property Investments" ],
       [ from |-> "hello@kr-properties.co.uk", name |-> "KR Property Investments" ] >>

ReportSubject == "Your Inflation Impact Report - KR Property Investments"

\* null in a response.
Null == [ t |-> "null" ]

\* The message and code of a transport error.
ErrorDetails(err) == [ message |-> err, code |-> err ]

\* The response of the handler, built from its three flags.
EmailProcessedShared(email, l) ==
    Json(200, TRUE, "Inflation email processed successfully", "",
         [ emailSent |-> l.emailSent, emailStored |-> l.emailStored,
           recipient |-> Trim(email),
           errorDetails |-> IF \E q \in Req : loc[q].emailError # "null"
                            THEN ErrorDetails(CHOOSE e \in TransportErrors :
                                     \E q \in Req : loc[q].emailError = e)
                            ELSE Null ])

EmailProcessed(email, l) ==
    Json(200, TRUE, "Inflation email processed successfully", "",
         [ emailSent |-> l.emailSent, emailStored |-> l.emailStored,
           recipient |-> Trim(email),
           errorDetails |-> IF l.emailError # "null"
                            THEN ErrorDetails(l.emailError)
                            ELSE Null ])

\* if (SENDGRID_API_KEY): the transport is used only when configured.
ConfiguredAlways(key) == TRUE

Configured(key) == key

\* Entry to the first await: validation, then (with the transport configured)
\* the content is composed and the first send is issued.  A throw while
\* composing lands in the outer catch, which leaves all flags as they are.
InflationEmailStart(r) ==
    \E b \in EmailBodies :
        /\ Arrive(r, "email", b)
        /\ IF b.email = << >> \/ b.calculationData = Undefined
           THEN /\ Respond(r, Json(400, FALSE, "Email and calculation data are required",
                                   "", "none"))
                /\ loc' = loc
           ELSE IF ~emailRegexTest(Trim(b.email))
           THEN /\ Respond(r, Json(400, FALSE, "Invalid email format", "", "none"))
                /\ loc' = loc
           ELSE IF ~Configured(SENDGRID_API_KEY)
           THEN /\ Respond(r, EmailProcessed(b.email, loc[r]))
                /\ loc' = loc
           ELSE IF emailContentThrows(b)
           THEN /\ Respond(r, EmailProcessed(b.email, loc[r]))
                /\ loc' = [loc EXCEPT ![r].caught = "TypeError"]
           ELSE /\ pc' = [pc EXCEPT ![r] = "send"]
                /\ res' = res
                /\ loc' = [loc EXCEPT ![r].emailContent = emailContent(b, now.year),
                                       ![r].idx = 1]
        /\ UNCHANGED << db, SENDGRID_API_KEY, now, serial, tables, calls >>

\* for (const config of senderConfigs): the position of the next sender.
NextSenderSame(idx) == idx

NextSender(idx) == idx + 1

\* `break` of the sender loop: taken after a send that resolved.
BreakNever(result) == FALSE

BreakOnSuccess(result) == result = "ok"

\* emailError = configError in the loop's catch.
KeepFirstError(old, new) == IF old = "null" THEN new ELSE old

KeepError(old, new) == new

\* if (!emailSent) after the loop: the message goes to the queue only unsent.
QueueAlways(emailSent) == TRUE

QueueWhenUnsent(emailSent) == ~emailSent

\* The send to senderConfigs[idx] returns.  Success leaves the loop; a failure
\* goes on to the next sender; after the last sender has failed the message is
\* stored if there is a db, and otherwise the handler answers.
InflationEmailSend(r) ==
    /\ kind[r] = "email" /\ pc[r] = "send"
    /\ \E result \in {"ok"} \cup TransportErrors :
        LET config == senderConfigs[loc[r].idx]
            l1 == [loc[r] EXCEPT
                      !.emailSent = IF result = "ok" THEN TRUE ELSE @,
                      !.emailError = IF result = "ok" THEN @ ELSE KeepError(@, result)]
        IN /\ calls' = [calls EXCEPT ![r] = Append(@,
                   Call(config.from, Trim(body[r].email), ReportSubject,
                        loc[r].emailContent, result))]
           /\ IF ~BreakOnSuccess(result) /\ loc[r].idx < Len(senderConfigs)
              THEN /\ loc' = [loc EXCEPT ![r] = [l1 EXCEPT !.idx = NextSender(@)]]
                   /\ UNCHANGED << pc, res >>
              ELSE IF QueueWhenUnsent(l1.emailSent) /\ db
              THEN /\ loc' = [loc EXCEPT ![r] = l1]
                   /\ pc' = [pc EXCEPT ![r] = "store"]
                   /\ res' = res
              ELSE /\ loc' = [loc EXCEPT ![r] = l1]
                   /\ Respond(r, EmailProcessed(body[r].email, l1))
    /\ UNCHANGED << db, SENDGRID_API_KEY, now, serial, tables, kind, body,
                    doneBefore >>

\* JSON.stringify({message, code, response}) of the last transport error.
Stringify(err) == << "{", "message", err, "code", err, "response", "}" >>

\* The row db.insert(pendingEmails).values({...}) creates: the values given and
\* the column defaults (attempts 0, created_at now(), sent_at null).
PendingRowAttempted(r, id) ==
    [ id |-> id, recipientEmail |-> Trim(body[r].email),
      recipientName |-> body[r].name, subject |-> ReportSubject,
      htmlContent |-> loc[r].emailContent, emailType |-> "inflation_report",
      status |-> "failed", errorDetails |-> Stringify(loc[r].emailError),
      attempts |-> 1, createdAt |-> now, sentAt |-> "null" ]

PendingRowRawRecipient(r, id) ==
    [ id |-> id, recipientEmail |-> body[r].email,
      recipientName |-> IF body[r].name # << >> THEN body[r].name
                        ELSE << "U", "s", "e", "r" >>,
      subject |-> ReportSubject,
      htmlContent |-> loc[r].emailContent, emailType |-> "inflation_report",
      status |-> "pending",
      errorDetails |-> IF loc[r].emailError # "null"
                       THEN Stringify(loc[r].emailError)
                       ELSE "SendGrid configuration issue",
      attempts |-> 0, createdAt |-> now, sentAt |-> "null" ]

PendingRow(r, id) ==
    [ id |-> id, recipientEmail |-> Trim(body[r].email),
      recipientName |-> IF body[r].name # << >> THEN body[r].name
                        ELSE << "U", "s", "e", "r" >>,
      subject |-> ReportSubject,
      htmlContent |-> loc[r].emailContent, emailType |-> "inflation_report",
      status |-> "pending",
      errorDetails |-> IF loc[r].emailError # "null"
                       THEN Stringify(loc[r].emailError)
                       ELSE "SendGrid configuration issue",
      attempts |-> 0, createdAt |-> now, sentAt |-> "null" ]

\* emailStored = true, the statement after the awaited insert.
StoredAlways(inserted) == TRUE

StoredFlag(inserted) == inserted

\* The insert into pending_emails returns; a failure is caught and logged.
\* Either way the handler answers.
InflationEmailStore(r) ==
    /\ kind[r] = "email" /\ pc[r] = "store"
    /\ \E up \in StoreUp :
        LET id == NextId("pending_emails")
            l1 == [loc[r] EXCEPT !.emailStored = StoredFlag(up),
                                 !.caught = IF up THEN @ ELSE "StoreUnavailable"]
        IN /\ IF up
              THEN /\ serial' = [serial EXCEPT !["pending_emails"] = id]
                   /\ pendingEmails' = InsertRow(pendingEmails, PendingRow(r, id))
                   /\ queuedBy' = Append(queuedBy, r)
              ELSE UNCHANGED << serial, pendingEmails, queuedBy >>
           /\ loc' = [loc EXCEPT ![r] = l1]
           /\ Respond(r, EmailProcessed(body[r].email, l1))
    /\ UNCHANGED << db, SENDGRID_API_KEY, now, achievements,
                    newsletterSubscriptions,
                    dealSourcingWaitlist, inflationCalculations, learningProgress,
                    kind, body, calls, doneBefore >>

----------------------------------------------------------------------------
(* POST /api/inflation                                                     *)

Digits == << "0", "1", "2", "3", "4", "5", "6", "7", "8", "9" >>

IsDigit(c) == \E d \in 1..10 : Digits[d] = c

DigitValue(c) == (CHOOSE d \in 1..10 : Digits[d] = c) - 1

\* The value of the longest prefix of digits of s, read after acc.
RECURSIVE DigitsValue(_, _)
DigitsValue(s, acc) ==
    IF s = << >> \/ ~IsDigit(Head(s)) THEN acc
    ELSE DigitsValue(Tail(s), 10 * acc + DigitValue(Head(s)))

NaN == [ t |-> "NaN" ]

\* parseFloat / parseInt of a body field, for the integers the model sends: a
\* number is itself; of a string the leading sign and digits are read, and a
\* string that does not start with them is NaN, as is undefined.
ParseNumber(x) ==
    IF x.t = "number" THEN x
    ELSE IF x.t = "string"
    THEN LET s == TrimLeft(x.v)
             neg == s # << >> /\ Head(s) = "-"
             d == IF neg THEN Tail(s) ELSE s
         IN IF d = << >> \/ ~IsDigit(Head(d)) THEN NaN
            ELSE Num(IF neg THEN 0 - DigitsValue(d, 0) ELSE DigitsValue(d, 0))
    ELSE NaN

CalcBase == [ amount |-> Num(1000), year |-> Num(2020), month |-> Num(6) ]

\* The bodies POST /api/inflation is sent.
CalcBodies ==
    { [CalcBase EXCEPT !.amount = a] :
          a \in { Num(1000), Text(<< "2", "5", "0" >>), Text(<< "-", "5" >>),
                  Text(<< "x" >>), Num(0), Undefined } }
    \cup { [CalcBase EXCEPT !.month = Num(12)], [CalcBase EXCEPT !.year = Undefined] }

\* The row saved for a calculation.  yearsDiff is kept in months; the amounts
\* are the expressions the handler evaluates in floating point.
CalculationRow(id, initialAmount, monthsDiff) ==
    [ id |-> id,
      initialAmount |-> << "toString", initialAmount >>,
      years |-> monthsDiff \div 12,
      inflationRate |-> "2.5",
      finalAmount |-> << "toString", "initialAmount * pow(1.025, yearsDiff)",
                         initialAmount, monthsDiff >>,
      createdAt |-> now ]

MonthsDiff(b) ==
    12 * (now.year - ParseNumber(b.year).v) + (now.month - ParseNumber(b.month).v)

CalculationDone(b) ==
    Json(200, TRUE, "Inflation calculation completed successfully", "",
         [ originalValue |-> ParseNumber(b.amount).v,
           todayValue |-> << "initialAmount * pow(1.025, yearsDiff)",
                             ParseNumber(b.amount).v, MonthsDiff(b) >>,
           startYear |-> ParseNumber(b.year).v, endYear |-> now.year ])

\* Entry to the first await: validation and the calculation; with a db the
\* insert is issued, without one the handler answers at once.
InflationStart(r) ==
    \E b \in CalcBodies :
        /\ Arrive(r, "inflation", b)
        /\ IF ~Truthy(b.amount) \/ ~Truthy(b.year) \/ ~Truthy(b.month)
           THEN Respond(r, Json(400, FALSE, "Amount, year, and month are required",
                                "", "none"))
           ELSE IF NaN \in { ParseNumber(b.amount), ParseNumber(b.year),
                             ParseNumber(b.month) }
           THEN Respond(r, Json(400, FALSE, "Invalid numeric values provided", "", "none"))
           ELSE IF ParseNumber(b.amount).v <= 0
           THEN Respond(r, Json(400, FALSE, "Amount must be positive", "", "none"))
           ELSE IF db
           THEN /\ pc' = [pc EXCEPT ![r] = "insert"]
                /\ res' = res
           ELSE Respond(r, CalculationDone(b))
        /\ UNCHANGED << db, SENDGRID_API_KEY, now, serial, tables, loc, calls >>

\* The insert returns; a failure is caught, logged and not passed on.
InflationInsert(r) ==
    /\ kind[r] = "inflation" /\ pc[r] = "insert"
    /\ \E up \in StoreUp :
        LET id  == NextId("inflation_calculations")
            row == CalculationRow(id, ParseNumber(body[r].amount).v, MonthsDiff(body[r]))
        IN IF up
           THEN /\ serial' = [serial EXCEPT !["inflation_calculations"] = id]
                /\ inflationCalculations' = Append(inflationCalculations, row)
                /\ loc' = [loc EXCEPT ![r].entry = row]
           ELSE /\ UNCHANGED << serial, inflationCalculations >>
                /\ loc' = [loc EXCEPT ![r].caught = "StoreUnavailable"]
    /\ Respond(r, CalculationDone(body[r]))
    /\ UNCHANGED << db, SENDGRID_API_KEY, now, achievements,
                    newsletterSubscriptions,
                    dealSourcingWaitlist, learningProgress, pendingEmails, queuedBy,
                    kind, body, calls, doneBefore >>

----------------------------------------------------------------------------
(* POST /api/learning/progress and PUT /api/learning/progress/:userId/:moduleId *)

\* The payload fields; "" is a field the body does not carry.
ProgressPayloads ==
    { [ completed |-> "true", score |-> "80", timeSpent |-> "30" ],
      [ completed |-> "", score |-> "95", timeSpent |-> "" ] }

ProgressKeys ==
    { [ userId |-> "u1", moduleId |-> "m1" ], [ userId |-> "u1", moduleId |-> "m2" ] }

ProgressBody(k, p) ==
    [ userId |-> k.userId, moduleId |-> k.moduleId, completed |-> p.completed,
      score |-> p.score, timeSpent |-> p.timeSpent ]

\* Each payload for module m1, one of them for module m2.
ProgressKeyed ==
    { ProgressBody(k, p) : k \in ProgressKeys, p \in ProgressPayloads }
    \ { ProgressBody([ userId |-> "u1", moduleId |-> "m2" ],
                     [ completed |-> "", score |-> "95", timeSpent |-> "" ]) }

\* The bodies POST /api/learning/progress is sent.
ProgressPostBodies ==
    ProgressKeyed
    \cup { ProgressBody([ userId |-> "", moduleId |-> "m1" ],
                        [ completed |-> "true", score |-> "80", timeSpent |-> "30" ]),
           ProgressBody([ userId |-> "u1", moduleId |-> "" ],
                        [ completed |-> "true", score |-> "80", timeSpent |-> "30" ]) }

\* The params and bodies PUT /api/learning/progress/:userId/:moduleId is sent.
ProgressPutBodies == ProgressKeyed

\* and(eq(userId, userId), eq(moduleId, moduleId))
MatchesProgress(row, b) == row.userId = b.userId /\ row.moduleId = b.moduleId

\* .set({completed: completed || "false", score: score || null, ...})
ProgressSetMerge(row, b) ==
    [row EXCEPT !.completed = IF b.completed # "" THEN b.completed ELSE @,
                !.score = IF b.score # "" THEN b.score ELSE @,
                !.timeSpent = IF b.timeSpent # "" THEN b.timeSpent ELSE @,
                !.updatedAt = now]

ProgressSet(row, b) ==
    [row EXCEPT !.completed = IF b.completed # "" THEN b.completed ELSE "false",
                !.score = IF b.score # "" THEN b.score ELSE "null",
                !.timeSpent = IF b.timeSpent # "" THEN b.timeSpent ELSE "null",
                !.updatedAt = now]

\* db.update(learningProgress).set(...).where(...): the table afterwards.
ProgressUpdatedIgnore(b) == learningProgress

ProgressUpdated(b) ==
    [ i \in 1..Len(learningProgress) |->
        IF MatchesProgress(learningProgress[i], b)
        THEN ProgressSet(learningProgress[i], b)
        ELSE learningProgress[i] ]

\* .returning() of that update: the rows it changed.
ProgressReturningNone(b) == << >>

ProgressReturning(b) ==
    SelectSeq(ProgressUpdated(b), LAMBDA row : MatchesProgress(row, b))

\* The row db.insert(learningProgress).values({...}) creates.
ProgressRow(id, b) ==
    [ id |-> id, userId |-> b.userId, moduleId |-> b.moduleId,
      completed |-> IF b.completed # "" THEN b.completed ELSE "false",
      score |-> IF b.score # "" THEN b.score ELSE "null",
      timeSpent |-> IF b.timeSpent # "" THEN b.timeSpent ELSE "null",
      createdAt |-> now, updatedAt |-> now ]

\* What POST /api/learning/progress with body b does to the table when no
\* other call runs between its statements: select, then update or insert.
PostEffect(b) ==
    LET existing == SelectSeq(learningProgress, LAMBDA row : MatchesProgress(row, b))
    IN IF Len(existing) > 0
       THEN ProgressUpdated(b)
       ELSE InsertRow(learningProgress, ProgressRow(NextId("learning_progress"), b))

\* What PUT /api/learning/progress/:userId/:moduleId does likewise: update,
\* then insert if the update returned no row.
PutEffect(b) ==
    LET result == ProgressReturning(b)
    IN IF Len(result) = 0
       THEN InsertRow(ProgressUpdated(b), ProgressRow(NextId("learning_progress"), b))
       ELSE ProgressUpdated(b)

ProgressPostStart(r) ==
    \E b \in ProgressPostBodies :
        /\ Arrive(r, "progressPost", b)
        /\ IF b.userId = "" \/ b.moduleId = ""
           THEN Respond(r, Json(400, FALSE, "userId and moduleId are required", "", "none"))
           ELSE IF ~db
           THEN Respond(r, Json(500, FALSE, "Database connection not available", "", "none"))
           ELSE /\ pc' = [pc EXCEPT ![r] = "select"]
                /\ res' = res
        /\ UNCHANGED << db, SENDGRID_API_KEY, now, serial, tables, loc, calls >>

\* The select returns: an existing row sends the handler to its update, none
\* to its insert.
ProgressPostSelect(r) ==
    /\ kind[r] = "progressPost" /\ pc[r] = "select"
    /\ \E up \in StoreUp :
        IF ~up
        THEN /\ Respond(r, CatchResponse("Failed to create learning progress",
                                         "StoreUnavailable"))
             /\ loc' = [loc EXCEPT ![r].caught = "StoreUnavailable"]
        ELSE LET existing == SelectSeq(learningProgress,
                                       LAMBDA row : MatchesProgress(row, body[r]))
             IN /\ loc' = [loc EXCEPT ![r].existing = existing]
                /\ pc' = [pc EXCEPT ![r] = IF Len(existing) > 0 THEN "update"
                                           ELSE "insert"]
                /\ res' = res
    /\ UNCHANGED << db, SENDGRID_API_KEY, now, serial, tables, kind, body, calls,
                    doneBefore >>

\* The update returns its rows; none is "Failed to create/update".
ProgressPostUpdate(r) ==
    /\ kind[r] = "progressPost" /\ pc[r] = "update"
    /\ \E up \in StoreUp :
        IF ~up
        THEN /\ Respond(r, CatchResponse("Failed to create learning progress",
                                         "StoreUnavailable"))
             /\ loc' = [loc EXCEPT ![r].caught = "StoreUnavailable"]
             /\ UNCHANGED learningProgress
        ELSE LET result == ProgressReturning(body[r])
             IN /\ learningProgress' = ProgressUpdated(body[r])
                /\ IF Len(result) = 0
                   THEN /\ Respond(r, CatchResponse("Failed to create learning progress",
                                       "Failed to create/update learning progress"))
                        /\ loc' = [loc EXCEPT ![r].caught = "Error"]
                   ELSE /\ Respond(r, Json(201, TRUE, "Learning progress saved successfully",
                                           "", result[1]))
                        /\ loc' = [loc EXCEPT ![r].entry = result[1]]
    /\ UNCHANGED << db, SENDGRID_API_KEY, now, achievements,
                    serial, newsletterSubscriptions,
                    dealSourcingWaitlist, inflationCalculations, pendingEmails,
                    queuedBy, kind, body, calls, doneBefore >>

ProgressPostInsert(r) ==
    /\ kind[r] = "progressPost" /\ pc[r] = "insert"
    /\ \E up \in StoreUp :
        IF ~up
        THEN /\ Respond(r, CatchResponse("Failed to create learning progress",
                                         "StoreUnavailable"))
             /\ loc' = [loc EXCEPT ![r].caught = "StoreUnavailable"]
             /\ UNCHANGED << serial, learningProgress >>
        ELSE LET id  == NextId("learning_progress")
                 row == ProgressRow(id, body[r])
             IN /\ serial' = [serial EXCEPT !["learning_progress"] = id]
                /\ learningProgress' = Append(learningProgress, row)
                /\ loc' = [loc EXCEPT ![r].entry = row]
                /\ Respond(r, Json(201, TRUE, "Learning progress saved successfully",
                                   "", row))
    /\ UNCHANGED << db, SENDGRID_API_KEY, now, achievements,
                    newsletterSubscriptions,
                    dealSourcingWaitlist, inflationCalculations, pendingEmails,
                    queuedBy, kind, body, calls, doneBefore >>

ProgressPutStart(r) ==
    \E b \in ProgressPutBodies :
        /\ Arrive(r, "progressPut", b)
        /\ IF ~db
           THEN Respond(r, Json(500, FALSE, "Database connection not available", "", "none"))
           ELSE /\ pc' = [pc EXCEPT ![r] = "update"]
                /\ res' = res
        /\ UNCHANGED << db, SENDGRID_API_KEY, now, serial, tables, loc, calls >>

\* The update returns its rows; with none the insert is issued.
ProgressPutUpdate(r) ==
    /\ kind[r] = "progressPut" /\ pc[r] = "update"
    /\ \E up \in StoreUp :
        IF ~up
        THEN /\ Respond(r, CatchResponse("Failed to update learning progress",
                                         "StoreUnavailable"))
             /\ loc' = [loc EXCEPT ![r].caught = "StoreUnavailable"]
             /\ UNCHANGED learningProgress
        ELSE LET result == ProgressReturning(body[r])
             IN /\ learningProgress' = ProgressUpdated(body[r])
                /\ IF Len(result) = 0
                   THEN /\ pc' = [pc EXCEPT ![r] = "insert"]
                        /\ UNCHANGED << res, loc >>
                   ELSE /\ Respond(r, Json(200, TRUE, "Learning progress updated successfully",
                                           "", result[1]))
                        /\ loc' = [loc EXCEPT ![r].entry = result[1]]
    /\ UNCHANGED << db, SENDGRID_API_KEY, now, achievements,
                    serial, newsletterSubscriptions,
                    dealSourcingWaitlist, inflationCalculations, pendingEmails,
                    queuedBy, kind, body, calls, doneBefore >>

ProgressPutInsert(r) ==
    /\ kind[r] = "progressPut" /\ pc[r] = "insert"
    /\ \E up \in StoreUp :
        IF ~up
        THEN /\ Respond(r, CatchResponse("Failed to update learning progress",
                                         "StoreUnavailable"))
             /\ loc' = [loc EXCEPT ![r].caught = "StoreUnavailable"]
             /\ UNCHANGED << serial, learningProgress >>
        ELSE LET id  == NextId("learning_progress")
                 row == ProgressRow(id, body[r])
             IN /\ serial' = [serial EXCEPT !["learning_progress"] = id]
                /\ learningProgress' = Append(learningProgress, row)
                /\ loc' = [loc EXCEPT ![r].entry = row]
                /\ Respond(r, Json(200, TRUE, "Learning progress created successfully",
                                   "", row))
    /\ UNCHANGED << db, SENDGRID_API_KEY, now, achievements,
                    newsletterSubscriptions,
                    dealSourcingWaitlist, inflationCalculations, pendingEmails,
                    queuedBy, kind, body, calls, doneBefore >>

----------------------------------------------------------------------------
(* POST /api/learning/achievements                                         *)

AchievementBase ==
    [ userId |-> "u1", badgeId |-> "b1", title |-> "First", description |-> "d1" ]

\* The bodies POST /api/learning/achievements is sent: the same badge of the
\* same user under two titles, another badge, and one body per missing field.
AchievementBodies ==
    { AchievementBase,
      [AchievementBase EXCEPT !.title = "Again", !.description = "d2"],
      [AchievementBase EXCEPT !.badgeId = "b2"],
      [AchievementBase EXCEPT !.userId = ""],
      [AchievementBase EXCEPT !.badgeId = ""],
      [AchievementBase EXCEPT !.title = ""],
      [AchievementBase EXCEPT !.description = ""] }

\* and(eq(achievements.userId, userId), eq(achievements.badgeId, badgeId))
MatchesAchievement(row, b) == row.userId = b.userId /\ row.badgeId = b.badgeId

AchievementStart(r) ==
    \E b \in AchievementBodies :
        /\ Arrive(r, "achievement", b)
        /\ IF "" \in { b.userId, b.badgeId, b.title, b.description }
           THEN Respond(r, Json(400, FALSE,
                    "userId, badgeId, title, and description are required", "", "none"))
           ELSE IF ~db
           THEN Respond(r, Json(500, FALSE, "Database connection not available", "", "none"))
           ELSE /\ pc' = [pc EXCEPT ![r] = "select"]
                /\ res' = res
        /\ UNCHANGED << db, SENDGRID_API_KEY, now, serial, tables, loc, calls >>

\* The select returns: an existing achievement answers 200 with it, none
\* sends the handler to its insert.
AchievementSelect(r) ==
    /\ kind[r] = "achievement" /\ pc[r] = "select"
    /\ \E up \in StoreUp :
        IF ~up
        THEN /\ Respond(r, CatchResponse("Failed to create achievement",
                                         "StoreUnavailable"))
             /\ loc' = [loc EXCEPT ![r].caught = "StoreUnavailable"]
        ELSE LET existing == SelectSeq(achievements,
                                       LAMBDA row : MatchesAchievement(row, body[r]))
             IN /\ loc' = [loc EXCEPT ![r].existing = existing]
                /\ IF Len(existing) > 0
                   THEN Respond(r, Json(200, TRUE, "Achievement already exists", "",
                                        existing[1]))
                   ELSE /\ pc' = [pc EXCEPT ![r] = "insert"]
                        /\ res' = res
    /\ UNCHANGED << db, SENDGRID_API_KEY, now, serial, tables, kind, body, calls,
                    doneBefore >>

\* The insert returns its row, which answers 201.
AchievementInsert(r) ==
    /\ kind[r] = "achievement" /\ pc[r] = "insert"
    /\ \E up \in StoreUp :
        IF ~up
        THEN /\ Respond(r, CatchResponse("Failed to create achievement",
                                         "StoreUnavailable"))
             /\ loc' = [loc EXCEPT ![r].caught = "StoreUnavailable"]
             /\ UNCHANGED << serial, achievements >>
        ELSE LET id  == NextId("achievements")
                 b   == body[r]
                 row == [ id |-> id, userId |-> b.userId, badgeId |-> b.badgeId,
                          title |-> b.title, description |-> b.description,
                          earnedAt |-> now ]
             IN /\ serial' = [serial EXCEPT !["achievements"] = id]
                /\ achievements' = InsertRow(achievements, row)
                /\ loc' = [loc EXCEPT ![r].entry = row]
                /\ Respond(r, Json(201, TRUE, "Achievement created successfully",
                                   "", row))
    /\ UNCHANGED << db, SENDGRID_API_KEY, now, newsletterSubscriptions,
                    dealSourcingWaitlist, inflationCalculations, learningProgress,
                    pendingEmails, queuedBy, kind, body, calls, doneBefore >>

----------------------------------------------------------------------------
(* The clock.                                                              *)

\* The last year the clock of the model reaches.
LastYear == 2026

\* Time passes: new Date() reports the next month.
Tick ==
    /\ now.year < LastYear
    /\ now' = IF now.month = 12 THEN [ year |-> now.year + 1, month |-> 1 ]
              ELSE [now EXCEPT !.month = @ + 1]
    /\ UNCHANGED << db, SENDGRID_API_KEY, serial, tables, kind, pc, body, loc,
                    calls, res, doneBefore >>

----------------------------------------------------------------------------
(* The specifications: the requests of one family of endpoints, in every    *)
(* interleaving of their awaits.                                           *)

NextIngest ==
    \E r \in Req :
        \/ NewsletterStart(r)
        \/ NewsletterSelect(r)
        \/ NewsletterInsert(r)
        \/ DealLeadStart(r)
        \/ DealLeadSelect(r)
        \/ DealLeadInsert(r)
        \/ DealLeadSend(r)

SpecIngest == Init /\ [][NextIngest]_vars

NextEmail ==
    \E r \in Req :
        \/ InflationEmailStart(r)
        \/ InflationEmailSend(r)
        \/ InflationEmailStore(r)

SpecEmail == Init /\ [][NextEmail]_vars

\* Report requests that take each way through the handler: one that reaches
\* the sender loop, one whose template throws, one that fails validation.
LiveBodies ==
    { EmailBase,
      [EmailBase EXCEPT !.calculationData =
          [CalcNumbers EXCEPT !.percentageIncrease = Text(<< "5", "0" >>)]],
      [EmailBase EXCEPT !.calculationData = Undefined] }

NextEmailLive ==
    \E r \in Req :
        \/ InflationEmailStart(r) /\ body'[r] \in LiveBodies
        \/ InflationEmailSend(r)
        \/ InflationEmailStore(r)

\* Every awaited send and insert of a report request returns.
SpecEmailLive ==
    /\ Init /\ [][NextEmailLive]_vars
    /\ \A r \in Req : /\ WF_vars(InflationEmailSend(r))
                      /\ WF_vars(InflationEmailStore(r))

NextInflation ==
    \E r \in Req :
        \/ InflationStart(r)
        \/ InflationInsert(r)

NextProgress ==
    \E r \in Req :
        \/ ProgressPostStart(r)
        \/ ProgressPostSelect(r)
        \/ ProgressPostUpdate(r)
        \/ ProgressPostInsert(r)
        \/ ProgressPutStart(r)
        \/ ProgressPutUpdate(r)
        \/ ProgressPutInsert(r)

SpecProgress == Init /\ [][NextProgress]_vars

NextAchievements ==
    \E r \in Req :
        \/ AchievementStart(r)
        \/ AchievementSelect(r)
        \/ AchievementInsert(r)

SpecAchievements == Init /\ [][NextAchievements]_vars

\* The record-creating endpoints.
NextRecords ==
    \/ NextIngest
    \/ NextInflation
    \/ NextProgress

SpecRecords == Init /\ [][NextRecords]_vars

\* The two endpoints that send a notification.
NextNotify ==
    \E r \in Req :
        \/ DealLeadStart(r)
        \/ DealLeadSelect(r)
        \/ DealLeadInsert(r)
        \/ DealLeadSend(r)
        \/ InflationEmailStart(r)
        \/ InflationEmailSend(r)
        \/ InflationEmailStore(r)

SpecNotify == Init /\ [][NextNotify]_vars

\* Report-email requests as time passes.
NextCompose ==
    \/ NextEmail
    \/ Tick

SpecCompose == Init /\ [][NextCompose]_vars

\* The three endpoints that validate an email address.
NextValidate ==
    \/ NextIngest
    \/ NextEmail

SpecValidate == Init /\ [][NextValidate]_vars

Next ==
    \/ NextIngest
    \/ NextInflation
    \/ NextProgress
    \/ NextAchievements
    \/ NextEmail
    \/ Tick

Spec == Init /\ [][Next]_vars

----------------------------------------------------------------------------
(* Properties of ingestion (DedupIngestor).                                *)

IngestTable(k) ==
    IF k = "newsletter" THEN newsletterSubscriptions ELSE dealSourcingWaitlist

\* r and q are ingest calls of the same entity type with the same natural key.
SameKey(r, q) ==
    /\ kind[r] \in IngestKinds
    /\ SameRecord(kind[r], body[r], kind[q], body[q])

\* r has been answered, passed validation, and met no store outage.
Served(r) ==
    /\ pc[r] = "done"
    /\ db
    /\ res[r].status # 400
    /\ res[r].error # "StoreUnavailable"

\* r and q were in flight at the same time.
Overlap(r, q) == r \notin doneBefore[q] /\ q \notin doneBefore[r]

RowsWithEmail(table, email) ==
    Cardinality({ i \in 1..Len(table) : table[i].email = email })

\* C1 (as claimed): two simultaneous ingest calls with the same new email leave
\* exactly one row for it and both return success with the same record id.
C1_ConcurrentIngestBothSucceed ==
    \A r \in Req : \A q \in Req :
        (r # q /\ SameKey(r, q) /\ Served(r) /\ Served(q) /\ Overlap(r, q))
        => /\ RowsWithEmail(IngestTable(kind[r]), Trim(body[r].email)) = 1
           /\ res[r].success
           /\ res[q].success
           /\ res[r].data.id = res[q].data.id

\* r is the first call for its key: every other call for the key arrived after
\* r was answered.
FirstForKey(r) ==
    \A p \in Req : (p # r /\ SameKey(p, r)) => r \in doneBefore[p]

\* C2: on an initially empty store, of two successive non-overlapping ingest
\* calls with the same email (neither meeting a store outage) the first answers
\* 201 (created), the second 200 (existing), with the same record id.
C2_TwiceCreatedThenExisting ==
    \A r \in Req : \A q \in Req :
        (SameKey(r, q) /\ Served(r) /\ Served(q) /\ FirstForKey(r)
            /\ r \in doneBefore[q])
        => /\ res[r].status = 201
           /\ res[q].status = 200
           /\ res[r].data.id = res[q].data.id

C2_Witness ==
    \E r \in Req : \E q \in Req :
        /\ SameKey(r, q) /\ Served(r) /\ Served(q) /\ FirstForKey(r)
        /\ r \in doneBefore[q]
        /\ body[r].email # body[q].email
        /\ res[q].status = 200

NoDuplicateEmail(table) ==
    \A i \in 1..Len(table) : \A j \in 1..Len(table) :
        i # j => table[i].email # table[j].email

\* C3: each of the two tables holds at most one row per email, and of two
\* ingest calls with the same email at most one has its insert accepted.
C3_AtMostOneRowPerEmail ==
    /\ NoDuplicateEmail(newsletterSubscriptions)
    /\ NoDuplicateEmail(dealSourcingWaitlist)
    /\ \A r \in Req : \A q \in Req :
          (r # q /\ SameKey(r, q)) => ~(res[r].status = 201 /\ res[q].status = 201)

\* Two calls raced past the lookup with the same email, and both inserts ran.
C3_Witness ==
    \E r \in Req : \E q \in Req :
        /\ r # q /\ SameKey(r, q) /\ Overlap(r, q)
        /\ res[r].status = 201
        /\ res[q].error = "ConstraintViolation"

----------------------------------------------------------------------------
(* Properties of delivery (DeliveryCoordinator) and of the queue.          *)

\* Every sender identity was tried for request r and every send failed.
Exhausted(r) ==
    /\ Len(calls[r]) = Len(senderConfigs)
    /\ \A i \in 1..Len(calls[r]) : calls[r][i].result # "ok"

SomeSendOk(r) == \E i \in 1..Len(calls[r]) : calls[r][i].result = "ok"

\* The pending_emails rows request r inserted.
QueuedRows(r) == { i \in 1..Len(pendingEmails) : queuedBy[i] = r }

\* r is a report-email request that has been answered and passed validation.
EmailAnswered(r) == kind[r] = "email" /\ pc[r] = "done" /\ res[r].status # 400

\* C4 (as claimed): whenever the report-email operation reports success after
\* all senders failed, a pending queue row holds the notification.
C4_ExhaustedIsQueued ==
    \A r \in Req :
        (EmailAnswered(r) /\ res[r].success /\ Exhausted(r))
        => \E i \in QueuedRows(r) : pendingEmails[i].status = "pending"

\* C5: a report-email request that passed validation is answered with success
\* whatever the transport and the queue insert did, and a waitlist call whose
\* insert created a row is answered 201 for that row, which stays in the table,
\* whether or not the confirmation email was sent.
C5_NotificationNeverFailsRequest ==
    \A r \in Req :
        /\ EmailAnswered(r) => (res[r].status = 200 /\ res[r].success)
        /\ (kind[r] = "waitlist" /\ loc[r].entry # NoRow)
           => /\ \E i \in 1..Len(dealSourcingWaitlist) :
                    dealSourcingWaitlist[i] = loc[r].entry
              /\ pc[r] = "done" => /\ res[r].status = 201
                                    /\ res[r].success
                                    /\ res[r].data.id = loc[r].entry.id

\* One request lost its report on both channels, another lost its confirmation.
C5_Witness ==
    \E r \in Req : \E q \in Req :
        /\ EmailAnswered(r) /\ Exhausted(r) /\ loc[r].caught = "StoreUnavailable"
        /\ kind[q] = "waitlist" /\ pc[q] = "done" /\ Len(calls[q]) = 1
        /\ calls[q][1].result # "ok"

\* C7: the sends of a report go to the sender identities in list order, only
\* the last of them can have succeeded, and a request reporting sent=true made
\* exactly as many calls as the position of the succeeding sender.
C7_SendersInOrderStopAtSuccess ==
    \A r \in Req :
        kind[r] = "email"
        => /\ Len(calls[r]) <= Len(senderConfigs)
           /\ \A i \in 1..Len(calls[r]) :
                 /\ i <= Len(senderConfigs) => calls[r][i].from = senderConfigs[i].from
                 /\ i < Len(calls[r]) => calls[r][i].result # "ok"
           /\ loc[r].emailSent
              => /\ Len(calls[r]) >= 1
                 /\ calls[r][Len(calls[r])].result = "ok"
                 /\ pc[r] = "done"

\* A and B failed, C succeeded: three calls and sent=true.
C7_Witness ==
    \E r \in Req :
        /\ kind[r] = "email" /\ pc[r] = "done" /\ loc[r].emailSent
        /\ Len(calls[r]) = 3
        /\ calls[r][1].result # "ok" /\ calls[r][2].result # "ok"
        /\ calls[r][3].from = "hello@kr-properties.co.uk"

\* C8: once the sender walk is over, sent=false holds exactly when every
\* sender identity failed; while it runs every failure so far has moved it to
\* the next sender; and the error kept is that of the latest failed attempt.
C8_SentFalseIffAllFailed ==
    \A r \in Req :
        (kind[r] = "email" /\ Len(calls[r]) >= 1)
        => /\ pc[r] \in { "store", "done" }
              => (~loc[r].emailSent <=> Exhausted(r))
           /\ pc[r] = "send"
              => /\ loc[r].idx = Len(calls[r]) + 1
                 /\ \A i \in 1..Len(calls[r]) : calls[r][i].result # "ok"
           /\ Exhausted(r)
              => loc[r].emailError = calls[r][Len(calls[r])].result

\* The list was exhausted with errors of different kinds.
C8_Witness ==
    \E r \in Req :
        /\ kind[r] = "email" /\ pc[r] = "done" /\ Exhausted(r)
        /\ calls[r][1].result # calls[r][3].result
        /\ ~res[r].data.emailSent

\* C9: when all senders failed and the store accepted the insert, the request
\* has made exactly one queue row: pending, attempts 0, sentAt unset, and the
\* stringified error of the last transport failure as its error detail.
C9_EnqueuedRowIsPending ==
    \A r \in Req :
        (EmailAnswered(r) /\ Exhausted(r) /\ db /\ loc[r].caught = "none")
        => /\ Cardinality(QueuedRows(r)) = 1
           /\ \A i \in QueuedRows(r) :
                 /\ pendingEmails[i].status = "pending"
                 /\ pendingEmails[i].attempts = 0
                 /\ pendingEmails[i].sentAt = "null"
                 /\ pendingEmails[i].errorDetails
                        = Stringify(calls[r][Len(senderConfigs)].result)

C9_Witness ==
    \E r \in Req :
        /\ EmailAnswered(r) /\ Exhausted(r) /\ db /\ loc[r].caught = "none"
        /\ calls[r][2].result # calls[r][3].result
        /\ QueuedRows(r) # {}

\* C10: the response of a report-email request that passed validation reports
\* success; its emailSent flag is true exactly when one of its sends succeeded,
\* its emailStored flag exactly when it inserted a queue row, and never both.
C10_FlagsTellQueuedFromSent ==
    \A r \in Req :
        EmailAnswered(r)
        => /\ res[r].success
           /\ res[r].data.emailSent <=> SomeSendOk(r)
           /\ res[r].data.emailStored <=> QueuedRows(r) # {}
           /\ ~(res[r].data.emailSent /\ res[r].data.emailStored)

\* Delivery was exhausted and the response says queued, not sent.
C10_Witness ==
    \E r \in Req :
        /\ EmailAnswered(r) /\ Exhausted(r)
        /\ res[r].data.emailStored /\ ~res[r].data.emailSent

----------------------------------------------------------------------------
(* Failures of record creation.                                            *)

\* r is a request to a record-creating endpoint among ks that has been
\* answered and passed validation.
RecordAnswered(r, ks) == kind[r] \in ks /\ pc[r] = "done" /\ res[r].status # 400

\* The record the response of r speaks of is a row of its table.
RecordInStore(r) ==
    IF kind[r] \in IngestKinds
    THEN \E i \in 1..Len(IngestTable(kind[r])) :
            /\ IngestTable(kind[r])[i].email = Trim(body[r].email)
            /\ IngestTable(kind[r])[i].id = res[r].data.id
    ELSE IF kind[r] = "inflation"
    THEN \E i \in 1..Len(inflationCalculations) :
            inflationCalculations[i] = loc[r].entry
    ELSE \E i \in 1..Len(learningProgress) :
            /\ MatchesProgress(learningProgress[i], body[r])
            /\ learningProgress[i].id = res[r].data.id

\* No store, or a store call of r threw.
StoreFailed(r) == ~db \/ loc[r].caught # "none"

FailureSurfaced(r) ==
    /\ StoreFailed(r) => (~res[r].success /\ res[r].status = 500)
    /\ res[r].success => RecordInStore(r)

\* C6 (as claimed): for every record-creating operation, the calculator run
\* included, a store that is unavailable or a failed insert/update makes the
\* request report failure, and a reported success means the record is stored.
C6_IngestionFailureSurfaced ==
    \A r \in Req :
        RecordAnswered(r, { "newsletter", "waitlist", "inflation",
                            "progressPost", "progressPut" })
        => FailureSurfaced(r)

\* C6 (amended): that holds of newsletter, waitlist and learning-progress
\* requests; a calculator run is answered with success whether or not its row
\* was saved.
C6_IngestionFailureSurfacedExceptCalculator ==
    \A r \in Req :
        /\ RecordAnswered(r, { "newsletter", "waitlist", "progressPost", "progressPut" })
           => FailureSurfaced(r)
        /\ RecordAnswered(r, { "inflation" })
           => (res[r].success /\ (StoreFailed(r) <=> loc[r].entry = NoRow))

\* An upsert whose insert failed was answered 500 while a calculator run that
\* could not be saved was answered with success.
C6_Witness ==
    \E r \in Req : \E q \in Req :
        /\ kind[r] = "progressPut" /\ pc[r] = "done"
        /\ loc[r].caught = "StoreUnavailable" /\ res[r].status = 500
        /\ kind[q] = "inflation" /\ pc[q] = "done"
        /\ loc[q].caught = "StoreUnavailable" /\ res[q].success

----------------------------------------------------------------------------
(* The queue is written only after the sender walk.                        *)

\* A send of request r returns in this step.
SendReturns(r) == calls'[r] # calls[r]

\* C11: every queue row was inserted by a request that had tried every sender
\* and seen every send fail; a request one of whose sends succeeded has no
\* queue row; and the step in which a send returns writes to no table.
C11_QueueOnlyAfterExhaustion ==
    /\ [](\A i \in 1..Len(pendingEmails) :
              Exhausted(queuedBy[i]) /\ ~SomeSendOk(queuedBy[i]))
    /\ [](\A r \in Req : SomeSendOk(r) => QueuedRows(r) = {})
    /\ [][\A r \in Req : SendReturns(r) => UNCHANGED << tables, serial >>]_vars

\* With a store, one report went out at the third sender and left the queue
\* alone, while another found every sender failing and was queued.
C11_Witness ==
    \E r \in Req : \E q \in Req :
        /\ db
        /\ EmailAnswered(r) /\ SomeSendOk(r) /\ Len(calls[r]) = 3
        /\ EmailAnswered(q) /\ Exhausted(q) /\ QueuedRows(q) # {}
        /\ Len(pendingEmails) = 1

----------------------------------------------------------------------------
(* Properties of the learning-progress upsert (KeyedUpserter).             *)

\* r and q are upsert calls (POST or PUT) for the same (userId, moduleId).
SameProgress(r, q) ==
    /\ kind[r] \in UpsertKinds
    /\ SameRecord(kind[r], body[r], kind[q], body[q])

\* The rows of learning_progress for the key of body b.
RowsFor(b) ==
    { i \in 1..Len(learningProgress) : MatchesProgress(learningProgress[i], b) }

PayloadFields == { "completed", "score", "timeSpent" }

\* What a payload column holds when nothing was given for it.
ColumnUnset == { "false", "null" }

\* The record carries the payload of b and nothing else: a field b gives is
\* stored as given, a field b does not give is unset.
ReflectsOnly(row, b) ==
    \A f \in PayloadFields :
        IF b[f] # "" THEN row[f] = b[f] ELSE row[f] \in ColumnUnset

\* No two calls for the key of q were in flight at the same time.
Sequential(q) ==
    \A p1 \in Req : \A p2 \in Req :
        (p1 # p2 /\ SameProgress(p1, q) /\ SameProgress(p2, q)) => ~Overlap(p1, p2)

\* q is the latest call for its key that has been answered.
Latest(q) ==
    \A p \in Req :
        (p # q /\ SameProgress(p, q) /\ pc[p] = "done") => p \in doneBefore[q]

\* r was answered before q arrived, both for one key and both served, with no
\* call for the key overlapping another and none answered after q.
Successive(r, q) ==
    /\ SameProgress(r, q) /\ Served(r) /\ Served(q)
    /\ r \in doneBefore[q]
    /\ Sequential(q) /\ Latest(q)

\* C12: of two successive non-overlapping upsert calls for one key, both return
\* a record with the same id, exactly one row exists for the key, and the row
\* carries only the payload of the second call: a field the second call did
\* not give is unset, whatever the first call wrote.
C12_UpsertTwiceSameIdLatestPayload ==
    \A r \in Req : \A q \in Req :
        Successive(r, q)
        => /\ res[r].data.id = res[q].data.id
           /\ Cardinality(RowsFor(body[q])) = 1
           /\ \A i \in RowsFor(body[q]) : ReflectsOnly(learningProgress[i], body[q])

\* The first call gave completed, score and timeSpent, the second only a score.
C12_Witness ==
    \E r \in Req : \E q \in Req :
        /\ Successive(r, q)
        /\ body[r].timeSpent = "30" /\ body[q].timeSpent = ""
        /\ body[r].score # body[q].score
        /\ \A i \in RowsFor(body[q]) : learningProgress[i].timeSpent = "null"

\* C13 (as claimed): concurrent upsert calls for one key create the record
\* once: exactly one row exists for the key once they are answered, and it
\* carries the payload of one of them.
C13_ConcurrentUpsertCreatesOnce ==
    \A r \in Req : \A q \in Req :
        (r # q /\ SameProgress(r, q) /\ Served(r) /\ Served(q) /\ Overlap(r, q))
        => /\ Cardinality(RowsFor(body[r])) = 1
           /\ \A i \in RowsFor(body[r]) :
                 \/ ReflectsOnly(learningProgress[i], body[r])
                 \/ ReflectsOnly(learningProgress[i], body[q])

\* The upsert call r is answered in this step, having passed validation and
\* met no store failure.
UpsertAnswers(r) ==
    /\ pc[r] # "done" /\ pc'[r] = "done"
    /\ kind'[r] \in UpsertKinds
    /\ db
    /\ res'[r].status # 400
    /\ loc'[r].caught = "none"

\* The step overwrote the rows for the key of b, and rec is one of them.
Overwrote(b, rec) ==
    /\ RowsFor(b) # {}
    /\ Len(learningProgress') = Len(learningProgress)
    /\ \A i \in 1..Len(learningProgress) :
          IF i \in RowsFor(b)
          THEN /\ learningProgress'[i].id = learningProgress[i].id
               /\ MatchesProgress(learningProgress'[i], b)
               /\ ReflectsOnly(learningProgress'[i], b)
               /\ learningProgress'[i].updatedAt = now
          ELSE learningProgress'[i] = learningProgress[i]
    /\ \E i \in RowsFor(b) : rec = learningProgress'[i]

\* The step inserted rec as a new row.
Inserted(rec) ==
    /\ learningProgress' = Append(learningProgress, rec)
    /\ \A i \in 1..Len(learningProgress) : learningProgress[i].id # rec.id

\* C14: with the store available an upsert call is never answered "not found",
\* and the step that answers it either overwrites payload and update timestamp
\* of the rows matching its key or inserts a new row with the key and the
\* payload (which it does whenever none matches, and a POST only after its
\* lookup found none); the response is success with that record.
C14_UpsertOverwritesOrInserts ==
    /\ [](\A r \in Req : kind[r] \in UpsertKinds => res[r].status # 404)
    /\ [][\A r \in Req :
            UpsertAnswers(r)
            => /\ res'[r].success
               /\ res'[r].status \in { 200, 201 }
               /\ MatchesProgress(res'[r].data, body[r])
               /\ ReflectsOnly(res'[r].data, body[r])
               /\ \/ Overwrote(body[r], res'[r].data)
                  \/ /\ Inserted(res'[r].data)
                     /\ kind[r] = "progressPost" => loc[r].existing = << >>]_vars

\* A PUT found no row and created one; a POST found a row and overwrote it.
C14_Witness ==
    \E r \in Req : \E q \in Req :
        /\ kind[r] = "progressPut" /\ pc[r] = "done"
        /\ res[r].message = "Learning progress created successfully"
        /\ kind[q] = "progressPost" /\ pc[q] = "done"
        /\ loc[q].existing # << >> /\ res[q].status = 201
        /\ res[q].data.score # res[r].data.score

----------------------------------------------------------------------------
(* First submission wins.                                                  *)

\* The ingest call r was answered "already there".
AnsweredExisting(r) ==
    kind[r] \in IngestKinds /\ pc[r] = "done" /\ res[r].status = 200

\* The response of r gives the fields of row.
ReturnsRow(r, row) ==
    /\ res[r].data.id = row.id
    /\ res[r].data.email = row.email
    /\ IF kind[r] = "waitlist"
       THEN res[r].data.name = row.name /\ res[r].data.joinedAt = row.createdAt
       ELSE res[r].data.subscribedAt = row.createdAt

\* Every row of the table is in the table after the step, as it was.
RowsKept(table) == \A i \in 1..Len(table) : table'[i] = table[i]

\* C15: an ingest call answered "already there" has inserted nothing and
\* returns the fields of the row stored for its email; the step that answers
\* it, like every step of an ingest call that is not its insert, changes no
\* table; and no step ever changes a row already in the two tables.
C15_FirstSubmissionWins ==
    /\ [](\A r \in Req :
            AnsweredExisting(r)
            => /\ loc[r].entry = NoRow /\ loc[r].caught = "none"
               /\ \E i \in 1..Len(IngestTable(kind[r])) :
                     /\ IngestTable(kind[r])[i].email = Trim(body[r].email)
                     /\ ReturnsRow(r, IngestTable(kind[r])[i]))
    /\ [][\A r \in Req :
            (kind'[r] \in IngestKinds /\ pc'[r] # pc[r] /\ pc[r] # "insert")
            => UNCHANGED << tables, serial >>]_vars
    /\ [][RowsKept(newsletterSubscriptions) /\ RowsKept(dealSourcingWaitlist)]_vars

\* A lead for an email already on the waitlist came with another name and a
\* phone number; it was answered with the stored name, and the stored row has
\* no phone.
C15_Witness ==
    \E r \in Req :
        /\ AnsweredExisting(r) /\ kind[r] = "waitlist"
        /\ res[r].data.name # Trim(body[r].name)
        /\ body[r].phone # << >>
        /\ \A i \in 1..Len(dealSourcingWaitlist) : dealSourcingWaitlist[i].phone = "null"

----------------------------------------------------------------------------
(* The sender walk is sequential.                                          *)

\* The positions in senderConfigs of the sends of request r that were issued
\* and have not returned: the handler is suspended at one await at a time.
InFlight(r) ==
    IF kind[r] = "email" /\ pc[r] = "send" THEN { loc[r].idx } ELSE {}

\* The sends of request r that succeeded.
OkCalls(r) == { i \in 1..Len(calls[r]) : calls[r][i].result = "ok" }

\* C16: a report request has at most one send in flight; the send in flight is
\* to the sender after those already tried, and every send before it has
\* returned a failure; and at most one send of the request ever succeeds.
C16_SenderWalkSequential ==
    \A r \in Req :
        kind[r] = "email"
        => /\ Cardinality(InFlight(r)) <= 1
           /\ \A i \in InFlight(r) :
                 /\ i = Len(calls[r]) + 1
                 /\ i <= Len(senderConfigs)
                 /\ \A j \in 1..Len(calls[r]) : calls[r][j].result # "ok"
           /\ Cardinality(OkCalls(r)) <= 1

\* Two reports at once: one waits for its third sender after two failures
\* while the other, delivered by its second sender, has made no third call.
C16_Witness ==
    \E r \in Req : \E q \in Req :
        /\ InFlight(r) = { 3 } /\ Len(calls[r]) = 2
        /\ kind[q] = "email" /\ pc[q] = "done"
        /\ OkCalls(q) = { 2 } /\ Len(calls[q]) = 2

----------------------------------------------------------------------------
(* Validation.                                                             *)

ValidatedKinds == { "newsletter", "waitlist", "email" }

\* s has the form local@domain: one "@", something before it, after it a
\* domain with a "." inside, and no white space.
WellFormedEmail(s) ==
    /\ Cardinality({ i \in 1..Len(s) : s[i] = "@" }) = 1
    /\ \A i \in 1..Len(s) : ~IsSpace(s[i])
    /\ \E i \in 2..Len(s) : \E j \in (i + 2)..(Len(s) - 1) :
          s[i] = "@" /\ s[j] = "."

\* The request to endpoint k with body b lacks its email or another required
\* field, or its email (white space around it aside) is not an address.
MissingOrMalformed(k, b) ==
    \/ b.email = << >>
    \/ ~WellFormedEmail(Trim(b.email))
    \/ /\ k = "waitlist"
       /\ << >> \in { b.name, b.investmentAmount, b.experienceLevel }
    \/ k = "email" /\ b.calculationData = Undefined

\* Request r arrives in this step.
Arrives(r) == pc[r] = "idle" /\ pc'[r] # "idle"

----------------------------------------------------------------------------
(* Composing the report.                                                   *)

\* Request r has composed its report: the template literal was evaluated.
Composed(r) == kind[r] = "email" /\ loc[r].emailContent # << >>

\* The input data of a compose run.
ComposeInput(b) ==
    << b.name, b.amount, b.month, b.year, b.chartImage, b.calculationData >>

\* The subject every call of request r carried.
SubjectsOf(r) == { calls[r][i].subject : i \in 1..Len(calls[r]) }

\* C19 (as claimed): two compose runs on identical input data produce the same
\* subject and the same body, whenever they run.
C19_ComposeDeterministic ==
    \A r \in Req : \A q \in Req :
        (Composed(r) /\ Composed(q) /\ ComposeInput(body[r]) = ComposeInput(body[q]))
        => /\ loc[r].emailContent = loc[q].emailContent
           /\ SubjectsOf(r) \cup SubjectsOf(q) \subseteq { ReportSubject }

----------------------------------------------------------------------------
(* The waitlist confirmation.                                              *)

\* The waitlist call r created its record and its confirmation was not sent:
\* every send it made failed.
ConfirmationFailed(r) ==
    /\ kind[r] = "waitlist" /\ pc[r] = "done" /\ res[r].status = 201
    /\ calls[r] # << >>
    /\ ~SomeSendOk(r)

\* C20 (as claimed): after a waitlist call that created a record and whose
\* confirmation delivery failed, a pending queue row for the confirmation
\* exists, and every sender of the ordered list was tried.
C20_FailedConfirmationIsQueued ==
    \A r \in Req :
        ConfirmationFailed(r)
        => /\ \E i \in QueuedRows(r) : pendingEmails[i].status = "pending"
           /\ Exhausted(r)

----------------------------------------------------------------------------
(* The message of a notification.                                          *)

\* C21: all sends of a report request carry the same recipient, subject and
\* body and each a different sender identity; the queue row the request
\* inserts after exhaustion carries that recipient, subject and body.
C21_SameMessageAcrossSendersAndQueue ==
    \A r \in Req :
        kind[r] = "email"
        => /\ \A i \in 1..Len(calls[r]) : \A j \in 1..Len(calls[r]) :
                 /\ calls[r][i].to = calls[r][j].to
                 /\ calls[r][i].subject = calls[r][j].subject
                 /\ calls[r][i].html = calls[r][j].html
                 /\ i # j => calls[r][i].from # calls[r][j].from
           /\ \A k \in QueuedRows(r) :
                 /\ calls[r] # << >>
                 /\ \A i \in 1..Len(calls[r]) :
                       /\ pendingEmails[k].recipientEmail = calls[r][i].to
                       /\ pendingEmails[k].subject = calls[r][i].subject
                       /\ pendingEmails[k].htmlContent = calls[r][i].html

\* A report for an address given with white space around it went through all
\* three senders and into the queue.
C21_Witness ==
    \E r \in Req :
        /\ EmailAnswered(r) /\ Exhausted(r) /\ QueuedRows(r) # {}
        /\ body[r].email = EmailASpace
        /\ body[r].chartImage # << >>

----------------------------------------------------------------------------
(* The queue is a log.                                                     *)

\* C22: a step changes no row already in the queue (its status stays pending
\* and its attempts 0), removes none, and makes no transport call for a
\* request that has been answered.
C22_QueueIsALog ==
    /\ [](\A i \in 1..Len(pendingEmails) :
              pendingEmails[i].status = "pending" /\ pendingEmails[i].attempts = 0)
    /\ [][/\ Len(pendingEmails') >= Len(pendingEmails)
          /\ \A i \in 1..Len(pendingEmails) : pendingEmails'[i] = pendingEmails[i]]_vars
    /\ [][\A r \in Req : pc[r] = "done" => calls'[r] = calls[r]]_vars

\* Two reports were queued one after the other; both rows are in the queue.
C22_Witness ==
    \E r \in Req : \E q \in Req :
        /\ r # q
        /\ Len(pendingEmails) = 2
        /\ QueuedRows(r) = { 1 } /\ QueuedRows(q) = { 2 }
        /\ pc[r] = "done" /\ pc[q] = "done"

----------------------------------------------------------------------------
(* Notifications are independent.                                          *)

\* What the calls of request r came back with, in order.
OwnResults(r) == [ i \in 1..Len(calls[r]) |-> calls[r][i].result ]

\* The error of the latest failed send of request r, "null" if none failed.
LastFailure(r) ==
    LET failed == { i \in 1..Len(calls[r]) : calls[r][i].result # "ok" }
    IN IF failed = {} THEN "null"
       ELSE calls[r][CHOOSE i \in failed : \A j \in failed : j <= i].result

\* A queue row without the id and time the store gave it.
RowContent(row) ==
    << row.recipientEmail, row.recipientName, row.subject, row.htmlContent,
       row.emailType, row.status, row.errorDetails, row.attempts >>

QueueContent(r) == { RowContent(pendingEmails[i]) : i \in QueuedRows(r) }

\* What request r reported and queued.
Outcome(r) ==
    << res[r].data.emailSent, res[r].data.emailStored, res[r].data.errorDetails,
       QueueContent(r) >>

\* Request r took a step.
Moved(r) == pc'[r] # pc[r] \/ calls'[r] # calls[r] \/ loc'[r] # loc[r]

----------------------------------------------------------------------------
(* Achievements.                                                           *)

\* r and q are create-achievement calls for the same (userId, badgeId).
SameAchievement(r, q) ==
    /\ kind[r] = "achievement"
    /\ SameRecord(kind[r], body[r], kind[q], body[q])

AchievementRowsFor(b) ==
    { i \in 1..Len(achievements) : MatchesAchievement(achievements[i], b) }

\* C24 (as claimed): concurrent create-achievement calls with the same key
\* leave at most one row for the key, and every call returns success with the
\* same record id.
C24_ConcurrentAchievementOnce ==
    \A r \in Req : \A q \in Req :
        (r # q /\ SameAchievement(r, q) /\ Served(r) /\ Served(q) /\ Overlap(r, q))
        => /\ Cardinality(AchievementRowsFor(body[r])) <= 1
           /\ res[r].success /\ res[q].success
           /\ res[r].data.id = res[q].data.id

----------------------------------------------------------------------------
(* The confirmation is sent by the call that created the row.              *)

\* The sends made to address e by waitlist calls: (request, position) pairs.
ConfirmationsTo(e) ==
    UNION { { << r, i >> : i \in { j \in 1..Len(calls[r]) : calls[r][j].to = e } } :
            r \in { q \in Req : kind[q] = "waitlist" } }

\* C25: a waitlist call sends at most one confirmation, and only after its own
\* insert created the row; a call that found the row or whose insert was
\* rejected sends none; so at most one confirmation is ever sent to an email.
C25_ConfirmationAtMostOncePerEmail ==
    /\ \A r \in Req :
          kind[r] = "waitlist"
          => /\ Len(calls[r]) <= 1
             /\ calls[r] # << >>
                => /\ loc[r].entry # NoRow
                   /\ loc[r].entry.email = calls[r][1].to
                   /\ \E i \in 1..Len(dealSourcingWaitlist) :
                         dealSourcingWaitlist[i] = loc[r].entry
             /\ (pc[r] = "done" /\ res[r].status # 201) => calls[r] = << >>
    /\ \A e \in { Trim(x) : x \in ValidEmails } : Cardinality(ConfirmationsTo(e)) <= 1

\* Two leads with one email raced: the one whose insert went through sent the
\* confirmation, the one whose insert was rejected sent nothing.
C25_Witness ==
    \E r \in Req : \E q \in Req :
        /\ r # q /\ SameKey(r, q) /\ kind[r] = "waitlist"
        /\ Len(calls[r]) = 1 /\ pc[r] = "done"
        /\ res[q].error = "ConstraintViolation" /\ calls[q] = << >>

----------------------------------------------------------------------------
(* Termination of a report request.                                        *)

\* Request r has started its sender walk.
WalkEntered(r) == kind[r] = "email" /\ loc[r].emailContent # << >>

\* C26: with every send and insert returning, a report request that is in
\* flight is eventually answered; its answer is given once and never changes;
\* and its walk makes at least one and at most as many sends as there are
\* senders, each to another sender, in list order.
C26_RequestTerminatesWalkBounded ==
    /\ \A r \in Req : (pc[r] \in { "send", "store" }) ~> (pc[r] = "done")
    /\ [][\A r \in Req : pc[r] = "done" => (pc'[r] = "done" /\ res'[r] = res[r])]_vars
    /\ [](\A r \in Req :
            kind[r] = "email"
            => /\ Len(calls[r]) <= Len(senderConfigs)
               /\ \A i \in 1..Len(calls[r]) : \A j \in 1..Len(calls[r]) :
                     i < j => calls[r][i].from # calls[r][j].from
               /\ \A i \in 1..Len(calls[r]) :
                     i <= Len(senderConfigs) => calls[r][i].from = senderConfigs[i].from
               /\ (WalkEntered(r) /\ pc[r] \in { "store", "done" })
                  => Len(calls[r]) >= 1
               /\ pc[r] = "done" => res[r].status \in { 200, 400 })

\* A report was answered after its walk went through all senders and its
\* queue insert failed.
C26_Witness ==
    \E r \in Req :
        /\ WalkEntered(r) /\ pc[r] = "done"
        /\ Len(calls[r]) = Len(senderConfigs)
        /\ loc[r].caught = "StoreUnavailable"

----------------------------------------------------------------------------
(* Error details in the response.                                          *)

FailedCalls(r) == { i \in 1..Len(calls[r]) : calls[r][i].result # "ok" }

\* C27: the response of a report request carries error details exactly when
\* one of its sends failed, and they are message and code of its latest
\* failed send, also when a later send succeeded.
C27_ErrorDetailsIffSomeSendFailed ==
    \A r \in Req :
        EmailAnswered(r)
        => /\ (res[r].data.errorDetails # Null) <=> (FailedCalls(r) # {})
           /\ \A i \in FailedCalls(r) :
                 (\A j \in FailedCalls(r) : j <= i)
                 => res[r].data.errorDetails = ErrorDetails(calls[r][i].result)

\* Two senders failed with different errors, the third delivered: sent=true
\* together with the details of the second failure.
C27_Witness ==
    \E r \in Req :
        /\ EmailAnswered(r) /\ res[r].data.emailSent
        /\ Len(calls[r]) = 3
        /\ calls[r][1].result # calls[r][2].result
        /\ res[r].data.errorDetails # Null

----------------------------------------------------------------------------
(* No transport configured.                                                *)

\* C28: without SENDGRID_API_KEY a report request that passed validation
\* makes no send and inserts no queue row, and is answered success with
\* emailSent=false, emailStored=false and errorDetails null.
C28_UnconfiguredTransportSkipsDelivery ==
    ~SENDGRID_API_KEY
    => /\ pendingEmails = << >>
       /\ \A r \in Req :
             kind[r] = "email"
             => /\ calls[r] = << >>
                /\ QueuedRows(r) = {}
                /\ EmailAnswered(r)
                   => /\ res[r].status = 200 /\ res[r].success
                      /\ ~res[r].data.emailSent
                      /\ ~res[r].data.emailStored
                      /\ res[r].data.errorDetails = Null

\* With a store but no transport, a valid report request was answered.
C28_Witness ==
    \E r \in Req :
        /\ ~SENDGRID_API_KEY /\ db
        /\ EmailAnswered(r) /\ res[r].success
        /\ body[r].calculationData # Undefined

----------------------------------------------------------------------------
(* The two upsert entry points.                                            *)

AtMostOneRowPerKey ==
    \A i \in 1..Len(learningProgress) : \A j \in 1..Len(learningProgress) :
        i # j => ~MatchesProgress(learningProgress[i], learningProgress[j])

\* A row without its generated id and its timestamps.
StripRow(row) ==
    [ userId |-> row.userId, moduleId |-> row.moduleId, completed |-> row.completed,
      score |-> row.score, timeSpent |-> row.timeSpent ]

StripRows(table) == [ i \in 1..Len(table) |-> StripRow(table[i]) ]

\* No other call wrote the key of r between the statements of r.
Undisturbed(r) == pc[r] = "insert" => RowsFor(body[r]) = {}

\* C29: a POST or PUT upsert that is answered undisturbed has changed the
\* table as its select/update/insert sequence run in one piece does; and from
\* every store with at most one row per key, for every key and payload, the
\* POST sequence and the PUT sequence give the same rows, ids and timestamps
\* aside.
C29_PostAndPutUpsertAgree ==
    /\ [][\A r \in Req :
            (UpsertAnswers(r) /\ Undisturbed(r))
            => learningProgress' = IF kind[r] = "progressPost"
                                   THEN PostEffect(body[r])
                                   ELSE PutEffect(body[r])]_vars
    /\ [](AtMostOneRowPerKey
          => \A b \in ProgressKeyed :
                StripRows(PostEffect(b)) = StripRows(PutEffect(b)))

\* A store with one row for a key and none for another, made by a POST and
\* then overwritten by a PUT with another payload: both the update and the
\* insert case are there to compare.
C29_Witness ==
    \E r \in Req : \E q \in Req :
        /\ Successive(r, q)
        /\ kind[r] = "progressPost" /\ kind[q] = "progressPut"
        /\ body[r].score # body[q].score
        /\ AtMostOneRowPerKey
        /\ \E b \in ProgressKeyed : RowsFor(b) = {}
        /\ \E b \in ProgressKeyed : RowsFor(b) # {} /\ PostEffect(b) # learningProgress

====
